---- MODULE Spec2Model ----
(***************************************************************************)
(* Model of generate_and_etl.py: the synthetic claims generator, the       *)
(* cleaner, the three sinks and the sequential driver main().              *)
(*                                                                         *)
(* Text is modelled as a sequence of character codes ("0" = 48, "-" = 45), *)
(* a date as a day number counted from 2024-01-01, a pandas Timestamp as   *)
(* <<"ts", <<y, m, d>>>> and a date string as <<"str", codes>>.            *)
(***************************************************************************)
EXTENDS Integers, Sequences, FiniteSets, TLC

VARIABLES
    pc,        \* position of the process in main(): "idle" before start
    run,       \* number of processes started so far
    today,     \* day datetime.today() returns in the current process (0: none yet)
    rng,       \* state of the `random` module generator
    nprng,     \* state of the numpy generator
    dirs,      \* directories that exist under ROOT
    dirs0,     \* history: the directories that existed before the first run
    stdout,    \* lines printed by the current process
    raw_df,    \* main: raw_df
    clean_df,  \* main: clean_df
    rawCsv,    \* content of RAW_CSV (<<>> when absent)
    cleanCsv,  \* content of CLEAN_CSV (<<>> when absent)
    db,        \* content of DB_PATH
    xlsx,      \* content of EXCEL_SUMMARY (<<>> when absent)
    err,       \* exception that ended the current process, or "none"
    rawRuns,   \* history: raw output produced by each process so far
    completed, \* history: number of processes that reached the last line
    t_in,      \* cleaner harness: the input table
    t_once,    \* cleaner harness: clean_data(t_in)
    t_twice,   \* cleaner harness: clean_data(clean_data(t_in))
    cstep,     \* cleaner harness: number of applications done
    g_in,      \* generator harness: the outcomes of the random draws
    g_rec      \* generator harness: the generated record (<<>> before)

pipeVars == <<pc, run, today, rng, nprng, dirs, dirs0, stdout, raw_df, clean_df,
              rawCsv, cleanCsv, db, xlsx, err, rawRuns, completed>>
cleanVars == <<t_in, t_once, t_twice, cstep>>
genVars == <<g_in, g_rec>>
vars == <<pipeVars, cleanVars, genVars>>

(***************************************************************************)
(* Bounds of the model                                                     *)
(***************************************************************************)
NRecords == 2      \* records per run (N_RECORDS is 600 in the program)
MaxRuns == 2       \* processes started one after the other
MaxRows == 2       \* rows of an arbitrary table given to clean_data

(***************************************************************************)
(* Program constants                                                       *)
(***************************************************************************)
SEED == 42
CLAIM_TYPES == <<"Motor", "Health", "Property">>
STATUSES == <<"Approved", "Rejected", "Pending">>
REGIONS == <<"Karnataka", "Maharashtra", "Delhi", "Tamil Nadu", "Gujarat",
             "Telangana", "West Bengal", "Rajasthan", "Uttar Pradesh", "Kerala">>

Range(s) == {s[i] : i \in DOMAIN s}

(***************************************************************************)
(* Text formatting                                                         *)
(***************************************************************************)
RECURSIVE Dec(_)
\* str(n) for n >= 0
Dec(n) == IF n < 10 THEN <<48 + n>> ELSE Dec(n \div 10) \o <<48 + (n % 10)>>

RECURSIVE ZFill(_, _)
\* s.zfill(w)
ZFill(s, w) == IF Len(s) >= w THEN s ELSE ZFill(<<48>> \o s, w)

RECURSIVE ParseInt(_)
\* int(s) for a string of decimal digits
ParseInt(s) ==
    IF Len(s) = 0 THEN 0
    ELSE 10 * ParseInt(SubSeq(s, 1, Len(s) - 1)) + (s[Len(s)] - 48)

\* AGENTS = [f"A{str(i).zfill(3)}" for i in range(1, 51)]
AGENTS == [i \in 1..50 |-> <<65>> \o ZFill(Dec(i), 3)]

(***************************************************************************)
(* Calendar                                                                *)
(***************************************************************************)
IsLeap(y) == (y % 4 = 0 /\ y % 100 # 0) \/ (y % 400 = 0)
DaysInMonth(y, m) ==
    IF m = 2 THEN (IF IsLeap(y) THEN 29 ELSE 28)
    ELSE IF m \in {4, 6, 9, 11} THEN 30 ELSE 31

RECURSIVE YmdFrom(_, _, _)
\* the date n days after the first day of month m of year y
YmdFrom(y, m, n) ==
    IF n >= DaysInMonth(y, m)
    THEN (IF m = 12 THEN YmdFrom(y + 1, 1, n - DaysInMonth(y, m))
                    ELSE YmdFrom(y, m + 1, n - DaysInMonth(y, m)))
    ELSE <<y, m, n + 1>>

\* datetime -> date(): day number n (n >= 0, counted from 2024-01-01)
DateOf(n) == YmdFrom(2024, 1, n)

\* date.isoformat(): "YYYY-MM-DD"
isoformat(ymd) ==
    ZFill(Dec(ymd[1]), 4) \o <<45>> \o ZFill(Dec(ymd[2]), 2) \o <<45>>
        \o ZFill(Dec(ymd[3]), 2)

(***************************************************************************)
(* Random sources.  The generators are deterministic functions of their    *)
(* seed; a linear congruential step stands for the library's generator.    *)
(***************************************************************************)
\* one step of the generator state
NextRand(s) == (226 * s + 22) % 65537

RECURSIVE RandAt(_, _)
\* the state after k steps from state s
RandAt(s, k) == IF k = 0 THEN s ELSE RandAt(NextRand(s), k - 1)

\* the next n raw outputs of a generator in state s
Stream(s, n) == [k \in 1..n |-> RandAt(s, k)]

\* random.random(), in thousandths: a value of [0, 1)
random01(r) == r % 1000

\* random.randint(a, b): uniform over a..b, both ends included
randint(a, b, r) == a + (r % (b - a + 1))

\* random.choice(seq)
choice(seq, r) == seq[1 + (r % Len(seq))]

\* random.choices(population, weights=w, k=1)[0], weights in thousandths:
\* bisect of random() * total in the cumulative weights, capped at the last
choices(population, cum, r) ==
    LET x == random01(r)
        i == Cardinality({j \in DOMAIN cum : cum[j] <= x}) + 1
    IN population[IF i > Len(population) THEN Len(population) ELSE i]

\* int(x) of a float given in tenths: truncation toward zero
IntTrunc(z) == IF z >= 0 THEN z \div 10 ELSE -((-z) \div 10)

\* a floor that is not applied
MaxUnfloored(a, b) == b

\* max(a, b)
Max(a, b) == IF a >= b THEN a ELSE b
\* min(a, b)
Min(a, b) == IF a <= b THEN a ELSE b

(***************************************************************************)
(* Generator                                                               *)
(***************************************************************************)
\* rand_date_within_months(months_back): today minus randint(0, 30 * months)
rand_date_within_months(months_back, now, r) ==
    now - randint(0, months_back * 30, r)

\* number of draws generate_record takes from `random`
DrawsUsed(r) ==
    IF choices(STATUSES, <<700, 900, 1000>>, r[2]) = "Pending" THEN 11 ELSE 10

\* generate_record(idx): r are the raw outputs of `random` in the order the
\* calls consume them, z the numpy normal sample in tenths, now the day
\* datetime.today() returns
generate_record(idx, r, z, now) ==
    LET claim_type == choices(CLAIM_TYPES, <<500, 800, 1000>>, r[1])
        status == choices(STATUSES, <<700, 900, 1000>>, r[2])
        region == choice(REGIONS, r[3])
        agent == choice(AGENTS, r[4])
        amount == IF claim_type = "Motor" THEN randint(10000, 250000, r[5])
                  ELSE IF claim_type = "Health" THEN randint(20000, 500000, r[5])
                  ELSE randint(30000, 500000, r[5])
        base_days == IF claim_type = "Motor" THEN randint(5, 25, r[6])
                     ELSE IF claim_type = "Health" THEN randint(7, 35, r[6])
                     ELSE randint(10, 45, r[6])
        fraud_flag == IF random01(r[7]) * 1000 < Min(50000 + amount, 150000)
                      THEN 1 ELSE 0
        claim_date == rand_date_within_months(18, now, r[8])
        jitter == IntTrunc(z)
        settlement_days == IF status = "Pending" THEN randint(1, 10, r[9])
                           ELSE Max(1, base_days + jitter)
        k == IF status = "Pending" THEN 10 ELSE 9
    IN [ClaimID |-> <<67>> \o Dec(100000 + idx),
        PolicyID |-> <<80>> \o Dec(200000 + randint(1, 99999, r[k])),
        CustomerID |-> <<67, 85>> \o Dec(300000 + randint(1, 99999, r[k + 1])),
        ClaimType |-> claim_type,
        ClaimAmount |-> amount,
        ClaimStatus |-> status,
        SettlementDays |-> settlement_days,
        FraudFlag |-> fraud_flag,
        ClaimDate |-> <<"str", isoformat(DateOf(claim_date))>>,
        Region |-> region,
        AgentID |-> agent]

\* column order of pd.DataFrame(rows): the key order of the record dict
RAW_COLUMNS == <<"ClaimID", "PolicyID", "CustomerID", "ClaimType", "ClaimAmount",
                 "ClaimStatus", "SettlementDays", "FraudFlag", "ClaimDate",
                 "Region", "AgentID">>

\* the numpy normal sample (tenths) read off a generator output
NormalOf(r) == (r % 401) - 200

RECURSIVE GenRows(_, _, _, _, _)
\* [generate_record(i) for i in range(i, n)] from generator states s, ns;
\* the result carries the rows and the generator states left behind
GenRows(i, n, s, ns, now) ==
    IF i >= n THEN [rows |-> <<>>, rng |-> s, nprng |-> ns]
    ELSE LET r == Stream(s, 11)
             pending == DrawsUsed(r) = 11
             z == NormalOf(NextRand(ns))
             rec == generate_record(i, r, z, now)
             rest == GenRows(i + 1, n, RandAt(s, DrawsUsed(r)),
                             IF pending THEN ns ELSE NextRand(ns), now)
         IN [rest EXCEPT !.rows = <<rec>> \o rest.rows]

\* generate_raw(n)
generate_raw(n, s, ns, now) ==
    LET g == GenRows(0, n, s, ns, now)
    IN [df |-> [columns |-> RAW_COLUMNS, rows |-> g.rows],
        rng |-> g.rng, nprng |-> g.nprng]

(***************************************************************************)
(* Cleaner                                                                 *)
(***************************************************************************)
\* a column assignment that always appends the column
AssignColAppend(columns, col) == Append(columns, col)

\* df[col] = ...: a new column is appended, an existing one keeps its place
AssignCol(columns, col) ==
    IF col \in Range(columns) THEN columns ELSE Append(columns, col)

\* a clip that applies the lower limit only
clipLowerOnly(v, lo, hi) == IF v < lo THEN lo ELSE v

\* Series.clip(lo, hi) on one value
clip(v, lo, hi) == IF v < lo THEN lo ELSE IF v > hi THEN hi ELSE v

\* pd.to_datetime on one value: a string is parsed, a Timestamp is kept
to_datetime(v) ==
    IF v[1] = "str"
    THEN <<"ts", <<ParseInt(SubSeq(v[2], 1, 4)), ParseInt(SubSeq(v[2], 6, 7)),
                   ParseInt(SubSeq(v[2], 9, 10))>>>>
    ELSE v

\* .dt.to_period("M").astype(str) on one Timestamp: "YYYY-MM"
to_period_M_str(ts) ==
    ZFill(Dec(ts[2][1]), 4) \o <<45>> \o ZFill(Dec(ts[2][2]), 2)

\* a filter that keeps a zero amount
KeepRowNonNegative(row) == row.ClaimAmount >= 0

\* df[df["ClaimAmount"] > 0]
KeepRow(row) == row.ClaimAmount > 0

\* ClaimStatus.where(ClaimStatus.isin(STATUSES), "Pending") on one value
FixStatus(st) == IF st \in Range(STATUSES) THEN st ELSE "Pending"

\* the four column assignments of clean_data on one surviving row
CleanRow(row) ==
    LET d == to_datetime(row.ClaimDate)
    IN ("YearMonth" :> to_period_M_str(d)) @@
       [row EXCEPT !.SettlementDays = clip(@, 1, 90),
                   !.ClaimStatus = FixStatus(@),
                   !.ClaimDate = d]

\* clean_data(df)
clean_data(df) ==
    LET kept == SelectSeq(df.rows, KeepRow)
    IN [columns |-> AssignCol(df.columns, "YearMonth"),
        rows |-> [i \in 1..Len(kept) |-> CleanRow(kept[i])]]

NoTable == [columns |-> <<>>, rows |-> <<>>]

(***************************************************************************)
(* Cleaner on arbitrary tables: t_in is any table of up to MaxRows rows    *)
(* whose ClaimAmount, SettlementDays, ClaimStatus and ClaimDate range over *)
(* values inside and outside the valid sets.                               *)
(***************************************************************************)
ArbAmounts == {-5, 0, 7}
ArbDays == {0, 1, 90, 91}
ArbStatuses == {"Approved", "Rejected", "Void"}
ArbDates == {<<"str", isoformat(<<2025, 12, 31>>)>>,
             <<"str", isoformat(<<2026, 1, 1>>)>>}

ArbRow(i, a, d, st, dt) ==
    [ClaimID |-> <<67>> \o Dec(100000 + i),
     PolicyID |-> <<80>> \o Dec(200001),
     CustomerID |-> <<67, 85>> \o Dec(300001),
     ClaimType |-> "Motor",
     ClaimAmount |-> a,
     ClaimStatus |-> st,
     SettlementDays |-> d,
     FraudFlag |-> 0,
     ClaimDate |-> dt,
     Region |-> "Delhi",
     AgentID |-> AGENTS[1]]

\* a row that will be dropped varies less: nothing of it reaches the result
ArbVariants ==
    {v \in ArbAmounts \X ArbDays \X ArbStatuses \X ArbDates :
        v[1] > 0 \/ (v[2] \in {0, 91} /\ v[3] \in {"Approved", "Void"}
                       /\ v[4] = <<"str", isoformat(<<2025, 12, 31>>)>>)}

ArbTables ==
    {[columns |-> RAW_COLUMNS,
      rows |-> [i \in 1..Len(f) |-> ArbRow(i - 1, f[i][1], f[i][2], f[i][3], f[i][4])]] :
        f \in UNION {[1..n -> ArbVariants] : n \in 0..MaxRows}}

(***************************************************************************)
(* Sinks                                                                   *)
(***************************************************************************)
\* text of one cell in to_csv: in the ClaimDate column a Timestamp at
\* midnight is written as its date and a date string as it is; any other
\* value is written by its own text
CsvCell(col, v) ==
    IF col = "ClaimDate"
    THEN (IF v[1] = "ts" THEN isoformat(v[2]) ELSE v[2])
    ELSE v

\* df.to_csv(path, index=False): the header line, then one line per row
to_csv(df) ==
    <<df.columns>> \o
    [i \in 1..Len(df.rows) |->
        [c \in 1..Len(df.columns) |->
            CsvCell(df.columns[c], df.rows[i][df.columns[c]])]]

\* DataFrame.to_sql(name, conn, if_exists=..., index=False) on the tables of
\* a database (a function from table names to tables): "fail" raises when
\* the table exists, "replace" drops it first, "append" inserts after it
to_sql(tables, df, name, if_exists) ==
    IF name \notin DOMAIN tables
    THEN [ok |-> TRUE, tables |-> (name :> df) @@ tables]
    ELSE IF if_exists = "fail" THEN [ok |-> FALSE, tables |-> tables]
    ELSE IF if_exists = "replace"
    THEN [ok |-> TRUE, tables |-> (name :> df) @@ tables]
    ELSE [ok |-> TRUE,
          tables |-> (name :> [tables[name] EXCEPT !.rows = @ \o df.rows])
                        @@ tables]

\* write_sqlite with if_exists="append"
write_sqlite_append(tables, df) == to_sql(tables, df, "Claims", "append")

\* write_sqlite(df, db_path, table_name="Claims")
write_sqlite(tables, df) == to_sql(tables, df, "Claims", "replace")

RECURSIVE SumSeq(_)
SumSeq(s) == IF Len(s) = 0 THEN 0 ELSE s[1] + SumSeq(Tail(s))

\* values of one column, in row order
Col(rows, c) == [i \in 1..Len(rows) |-> rows[i][c]]

\* Series.mean() as the pair <<sum, count>> (nan when the count is 0)
Mean(s) == <<SumSeq(s), Len(s)>>

\* lexicographic order on texts of equal length
LexLess(a, b) ==
    \E i \in 1..Len(a) : a[i] < b[i] /\ \A j \in 1..(i - 1) : a[j] = b[j]

RECURSIVE SortedKeys(_)
\* the distinct texts of S in ascending order (groupby sorts its keys)
SortedKeys(S) ==
    IF S = {} THEN <<>>
    ELSE LET m == CHOOSE x \in S : \A y \in S \ {x} : LexLess(x, y)
         IN <<m>> \o SortedKeys(S \ {m})

\* the group keys of a column among the values listed in `order`, which is
\* the ascending order of the names
PresentKeys(rows, c, order) ==
    SelectSeq(order, LAMBDA k : \E i \in 1..Len(rows) : rows[i][c] = k)

IsApproved(row) == row.ClaimStatus = "Approved"

\* rows of the group of column c with key k (groupby)
Grp(rows, c, k) == SelectSeq(rows, LAMBDA r : r[c] = k)

\* lines 119-124: the KPI sheet
KpiSheet(rows) ==
    LET approved == SelectSeq(rows, IsApproved)
    IN [TotalClaims |-> Len(rows),
        ApprovalRate |-> <<Len(approved), Len(rows)>>,
        AvgSettlementDays |-> Mean(Col(approved, "SettlementDays"))]

\* lines 127-132: the ByType sheet
ByTypeSheet(rows) ==
    LET types == PresentKeys(rows, "ClaimType", <<"Health", "Motor", "Property">>)
    IN [i \in 1..Len(types) |->
          [ClaimType |-> types[i],
           Total |-> Len(Grp(rows, "ClaimType", types[i])),
           AvgSettlementDays |->
               Mean(Col(Grp(rows, "ClaimType", types[i]), "SettlementDays")),
           FraudRate |-> Mean(Col(Grp(rows, "ClaimType", types[i]), "FraudFlag"))]]

\* lines 135-139: the ByRegion sheet
ByRegionSheet(rows) ==
    LET regions == PresentKeys(rows, "Region",
                       <<"Delhi", "Gujarat", "Karnataka", "Kerala", "Maharashtra",
                         "Rajasthan", "Tamil Nadu", "Telangana", "Uttar Pradesh",
                         "West Bengal">>)
    IN [i \in 1..Len(regions) |->
          [Region |-> regions[i],
           Total |-> Len(Grp(rows, "Region", regions[i])),
           FraudCases |-> SumSeq(Col(Grp(rows, "Region", regions[i]), "FraudFlag"))]]

\* a Trend sheet with one line per record instead of one per month
TrendSheetUngrouped(rows) ==
    [i \in 1..Len(rows) |-> [YearMonth |-> rows[i].YearMonth, ClaimVolume |-> 1]]

\* lines 142-143: the Trend sheet
TrendSheet(rows) ==
    LET months == SortedKeys({rows[i].YearMonth : i \in 1..Len(rows)})
    IN [i \in 1..Len(months) |->
          [YearMonth |-> months[i],
           ClaimVolume |-> Len(Grp(rows, "YearMonth", months[i]))]]

\* build_excel_summary(df, path): the four sheets of the workbook
build_excel_summary(df) ==
    [KPI |-> KpiSheet(df.rows),
     ByType |-> ByTypeSheet(df.rows),
     ByRegion |-> ByRegionSheet(df.rows),
     Trend |-> TrendSheet(df.rows)]

(***************************************************************************)
(* Driver                                                                  *)
(***************************************************************************)
RAW_DIR == "data/raw"
PROC_DIR == "data/processed"
REPORTS_DIR == "reports"     \* parent of EXCEL_SUMMARY
AllDirs == {RAW_DIR, PROC_DIR, REPORTS_DIR}

\* days on which a process may be started (2026-11-03 and 2026-11-05)
Days == {1037, 1039}

\* main() with the cleaning moved before the raw write
MAIN_STAGES_CleanFirst == <<"generate", "clean", "write_raw", "write_clean",
                           "write_sqlite", "write_excel", "finish">>

\* the statements of main(), in program order
MAIN_STAGES == <<"generate", "write_raw", "clean", "write_clean",
                 "write_sqlite", "write_excel", "finish">>

\* where control goes when the statement group `stage` returns normally
AfterStage(stage) ==
    LET i == CHOOSE j \in DOMAIN MAIN_STAGES : MAIN_STAGES[j] = stage
    IN IF i = Len(MAIN_STAGES) THEN "done" ELSE MAIN_STAGES[i + 1]

\* where control goes when `stage` raises: main() has no try/except, the
\* exception leaves main() and ends the process
OnRaise(stage) == "failed"

\* a failure handler that removes the outputs of the earlier stages
DeleteOnRaise(file) == <<>>

\* what a failed sink leaves on disk besides the earlier outputs: main() has
\* no finally/cleanup, the files of earlier stages are not touched
KeepOnRaise(file) == file

\* the ways a file write can fail: the parent directory is missing (nothing
\* is written), or an I/O error leaves the old content or a strict prefix
\* of the new one
WriteFailures(dir, old, new) ==
    IF dir \notin dirs
    THEN {[err |-> "FileNotFoundError", file |-> old]}
    ELSE {[err |-> "OSError", file |-> f] :
            f \in {old} \cup {SubSeq(new, 1, k) : k \in 0..(Len(new) - 1)}}

\* the cleaner and generator harnesses at rest
CleanOff == t_in = NoTable /\ t_once = NoTable /\ t_twice = NoTable /\ cstep = 0
GenOff == g_in = <<>> /\ g_rec = <<>>

\* before the first process: no output exists, any of the directories may
PipeInit ==
    /\ pc = "idle"
    /\ run = 0
    /\ today = 0
    /\ rng = SEED
    /\ nprng = SEED
    /\ dirs \in SUBSET AllDirs
    /\ dirs0 = dirs
    /\ stdout = <<>>
    /\ raw_df = NoTable
    /\ clean_df = NoTable
    /\ rawCsv = <<>>
    /\ cleanCsv = <<>>
    /\ db = <<>>
    /\ xlsx = <<>>
    /\ err = "none"
    /\ rawRuns = <<>>
    /\ completed = 0

\* the driver at rest
PipeOff == PipeInit /\ dirs = AllDirs

Init == PipeInit /\ CleanOff /\ GenOff

\* lines 17-33 and 166-167: a new process imports the module (both data
\* directories are created, both generators seeded) and enters main()
StartProcess ==
    /\ pc \in {"idle", "done", "failed"}
    /\ run < MaxRuns
    /\ run' = run + 1
    /\ today' \in Days
    /\ dirs' = dirs \cup {PROC_DIR, RAW_DIR}
    /\ rng' = SEED
    /\ nprng' = SEED
    /\ stdout' = <<>>
    /\ raw_df' = NoTable
    /\ clean_df' = NoTable
    /\ err' = "none"
    /\ pc' = MAIN_STAGES[1]
    /\ UNCHANGED <<dirs0, rawCsv, cleanCsv, db, xlsx, rawRuns, completed, cleanVars, genVars>>

\* lines 146-147
Generate ==
    /\ pc = "generate"
    /\ LET g == generate_raw(NRecords, rng, nprng, today)
       IN /\ raw_df' = g.df
          /\ rng' = g.rng
          /\ nprng' = g.nprng
    /\ stdout' = Append(stdout, "Generating raw dataset...")
    /\ pc' = AfterStage("generate")
    /\ UNCHANGED <<run, today, dirs, dirs0, clean_df, rawCsv, cleanCsv, db, xlsx,
                   err, rawRuns, completed, cleanVars, genVars>>

\* lines 148-149
WriteRaw ==
    /\ pc = "write_raw"
    /\ RAW_DIR \in dirs
    /\ rawCsv' = to_csv(raw_df)
    /\ rawRuns' = Append(rawRuns, to_csv(raw_df))
    /\ stdout' = Append(stdout, "Wrote raw CSV")
    /\ pc' = AfterStage("write_raw")
    /\ UNCHANGED <<run, today, rng, nprng, dirs, dirs0, raw_df, clean_df, cleanCsv,
                   db, xlsx, err, completed, cleanVars, genVars>>

WriteRawFail ==
    /\ pc = "write_raw"
    /\ \E o \in WriteFailures(RAW_DIR, rawCsv, to_csv(raw_df)) :
          /\ rawCsv' = o.file
          /\ err' = o.err
    /\ pc' = OnRaise("write_raw")
    /\ cleanCsv' = KeepOnRaise(cleanCsv)
    /\ db' = KeepOnRaise(db)
    /\ xlsx' = KeepOnRaise(xlsx)
    /\ UNCHANGED <<run, today, rng, nprng, dirs, dirs0, stdout, raw_df, clean_df,
                   rawRuns, completed, cleanVars, genVars>>

\* lines 151-152
Clean ==
    /\ pc = "clean"
    /\ clean_df' = clean_data(raw_df)
    /\ stdout' = Append(stdout, "Cleaning & transforming...")
    /\ pc' = AfterStage("clean")
    /\ UNCHANGED <<run, today, rng, nprng, dirs, dirs0, raw_df, rawCsv, cleanCsv,
                   db, xlsx, err, rawRuns, completed, cleanVars, genVars>>

\* lines 153-154
WriteClean ==
    /\ pc = "write_clean"
    /\ PROC_DIR \in dirs
    /\ cleanCsv' = to_csv(clean_df)
    /\ stdout' = Append(stdout, "Wrote clean CSV")
    /\ pc' = AfterStage("write_clean")
    /\ UNCHANGED <<run, today, rng, nprng, dirs, dirs0, raw_df, clean_df, rawCsv,
                   db, xlsx, err, rawRuns, completed, cleanVars, genVars>>

WriteCleanFail ==
    /\ pc = "write_clean"
    /\ \E o \in WriteFailures(PROC_DIR, cleanCsv, to_csv(clean_df)) :
          /\ cleanCsv' = o.file
          /\ err' = o.err
    /\ pc' = OnRaise("write_clean")
    /\ rawCsv' = KeepOnRaise(rawCsv)
    /\ db' = KeepOnRaise(db)
    /\ xlsx' = KeepOnRaise(xlsx)
    /\ UNCHANGED <<run, today, rng, nprng, dirs, dirs0, stdout, raw_df, clean_df,
                   rawRuns, completed, cleanVars, genVars>>

\* lines 156-158
WriteSqlite ==
    /\ pc = "write_sqlite"
    /\ PROC_DIR \in dirs
    /\ write_sqlite(db, clean_df).ok
    /\ db' = write_sqlite(db, clean_df).tables
    /\ stdout' = stdout \o <<"Writing SQLite database...", "Wrote SQLite DB">>
    /\ pc' = AfterStage("write_sqlite")
    /\ UNCHANGED <<run, today, rng, nprng, dirs, dirs0, raw_df, clean_df, rawCsv,
                   cleanCsv, xlsx, err, rawRuns, completed, cleanVars, genVars>>

\* the ways write_sqlite can fail: to_sql refuses (ValueError, nothing
\* changed), the directory is missing, or an I/O error leaves the old
\* table, no table, or the new table with a strict prefix of its rows
SqliteFailures ==
    IF PROC_DIR \notin dirs THEN {[err |-> "OperationalError", tables |-> db]}
    ELSE IF ~write_sqlite(db, clean_df).ok THEN {[err |-> "ValueError", tables |-> db]}
    ELSE {[err |-> "OSError", tables |-> t] :
            t \in {db, <<>>} \cup
                  {("Claims" :> [clean_df EXCEPT !.rows = SubSeq(@, 1, k)]) :
                      k \in 0..(Len(clean_df.rows) - 1)}}

WriteSqliteFail ==
    /\ pc = "write_sqlite"
    /\ \E o \in SqliteFailures :
          /\ db' = o.tables
          /\ err' = o.err
    /\ stdout' = Append(stdout, "Writing SQLite database...")
    /\ pc' = OnRaise("write_sqlite")
    /\ rawCsv' = KeepOnRaise(rawCsv)
    /\ cleanCsv' = KeepOnRaise(cleanCsv)
    /\ xlsx' = KeepOnRaise(xlsx)
    /\ UNCHANGED <<run, today, rng, nprng, dirs, dirs0, raw_df, clean_df,
                   rawRuns, completed, cleanVars, genVars>>

\* lines 160-162
WriteExcel ==
    /\ pc = "write_excel"
    /\ REPORTS_DIR \in dirs
    /\ xlsx' = <<build_excel_summary(clean_df)>>
    /\ stdout' = stdout \o <<"Building Excel summary...", "Wrote Excel">>
    /\ pc' = AfterStage("write_excel")
    /\ UNCHANGED <<run, today, rng, nprng, dirs, dirs0, raw_df, clean_df, rawCsv,
                   cleanCsv, db, err, rawRuns, completed, cleanVars, genVars>>

WriteExcelFail ==
    /\ pc = "write_excel"
    /\ \E o \in WriteFailures(REPORTS_DIR, xlsx, <<build_excel_summary(clean_df)>>) :
          /\ xlsx' = o.file
          /\ err' = o.err
    /\ stdout' = Append(stdout, "Building Excel summary...")
    /\ pc' = OnRaise("write_excel")
    /\ rawCsv' = KeepOnRaise(rawCsv)
    /\ cleanCsv' = KeepOnRaise(cleanCsv)
    /\ db' = KeepOnRaise(db)
    /\ UNCHANGED <<run, today, rng, nprng, dirs, dirs0, raw_df, clean_df,
                   rawRuns, completed, cleanVars, genVars>>

\* line 164
Finish ==
    /\ pc = "finish"
    /\ stdout' = Append(stdout, "Done.")
    /\ pc' = AfterStage("finish")
    /\ completed' = completed + 1
    /\ UNCHANGED <<run, today, rng, nprng, dirs, dirs0, raw_df, clean_df, rawCsv,
                   cleanCsv, db, xlsx, err, rawRuns, cleanVars, genVars>>

Next ==
    \/ StartProcess
    \/ Generate
    \/ WriteRaw
    \/ WriteRawFail
    \/ Clean
    \/ WriteClean
    \/ WriteCleanFail
    \/ WriteSqlite
    \/ WriteSqliteFail
    \/ WriteExcel
    \/ WriteExcelFail
    \/ Finish

Spec == Init /\ [][Next]_vars

(***************************************************************************)
(* clean_data applied once and twice to an arbitrary table                 *)
(***************************************************************************)
InitClean ==
    /\ PipeOff
    /\ GenOff
    /\ t_in \in ArbTables
    /\ t_once = NoTable
    /\ t_twice = NoTable
    /\ cstep = 0

CleanOnce ==
    /\ cstep = 0
    /\ t_once' = clean_data(t_in)
    /\ cstep' = 1
    /\ UNCHANGED <<pipeVars, genVars, t_in, t_twice>>

CleanTwice ==
    /\ cstep = 1
    /\ t_twice' = clean_data(t_once)
    /\ cstep' = 2
    /\ UNCHANGED <<pipeVars, genVars, t_in, t_once>>

NextClean == CleanOnce \/ CleanTwice

SpecClean == InitClean /\ [][NextClean]_vars

(***************************************************************************)
(* generate_record over the outcomes of its random draws                   *)
(***************************************************************************)
\* raw outputs of `random`, position by position, chosen to reach both ends
\* of every range and every branch
DrawSamples ==
    {0, 500, 800, 999} \X {0, 700, 900} \X {0, 9} \X {0, 49}
        \X {0, 240000, 480000} \X {0, 20} \X {0, 999} \X {0, 540}
        \X {0, 9} \X {0, 99998} \X {0}

\* numpy normal samples in tenths, far tails included
NormalSamples == {-600, -9, 0, 600}

InitGen ==
    /\ PipeOff
    /\ CleanOff
    /\ g_in \in [idx : {0, 599}, r : DrawSamples, z : NormalSamples, now : Days]
    /\ g_rec = <<>>

GenRecord ==
    /\ g_rec = <<>>
    /\ g_rec' = <<generate_record(g_in.idx, g_in.r, g_in.z, g_in.now)>>
    /\ UNCHANGED <<pipeVars, cleanVars, g_in>>

NextGen == GenRecord

SpecGen == InitGen /\ [][NextGen]_vars

(***************************************************************************)
(* Properties of clean_data (checked under SpecClean)                      *)
(***************************************************************************)
ValidStatuses == {"Approved", "Rejected", "Pending"}

\* C1: clean_data is idempotent: cleaning the cleaned table gives the same
\* table, row for row and column for column, also when the input has rows
\* with ClaimAmount <= 0, SettlementDays outside [1,90] or an invalid status.
C1_CleanIdempotent == cstep = 2 => t_twice = t_once

\* C1 witness: both applications done on a table with a dropped row and a
\* surviving row whose SettlementDays and ClaimStatus had to be repaired.
C1_Witness ==
    /\ cstep = 2
    /\ Len(t_once.rows) > 0
    /\ \E i \in 1..Len(t_in.rows) : t_in.rows[i].ClaimAmount <= 0
    /\ \E i \in 1..Len(t_in.rows) :
          /\ t_in.rows[i].ClaimAmount > 0
          /\ t_in.rows[i].SettlementDays \notin 1..90
          /\ t_in.rows[i].ClaimStatus \notin ValidStatuses

\* C2: every record of clean_data's result has ClaimAmount > 0,
\* SettlementDays in [1,90] (below 1 becomes 1, above 90 becomes 90, inside
\* unchanged) and a valid ClaimStatus (an invalid one becomes Pending, a
\* valid one is unchanged).
C2_CleanedRecordsValid ==
    cstep >= 1 =>
        \A i \in 1..Len(t_once.rows) :
            LET o == t_once.rows[i]
            IN /\ o.ClaimAmount > 0
               /\ o.SettlementDays \in 1..90
               /\ o.ClaimStatus \in ValidStatuses
               /\ \E j \in 1..Len(t_in.rows) :
                     LET src == t_in.rows[j]
                     IN /\ src.ClaimID = o.ClaimID
                        /\ src.SettlementDays < 1 => o.SettlementDays = 1
                        /\ src.SettlementDays > 90 => o.SettlementDays = 90
                        /\ src.SettlementDays \in 1..90 =>
                               o.SettlementDays = src.SettlementDays
                        /\ src.ClaimStatus \in ValidStatuses =>
                               o.ClaimStatus = src.ClaimStatus
                        /\ src.ClaimStatus \notin ValidStatuses =>
                               o.ClaimStatus = "Pending"

\* C2 witness: a cleaned table holding a row clamped down to 90 with its
\* invalid status replaced, and a row clamped up to 1.
C2_Witness ==
    /\ cstep >= 1
    /\ Len(t_once.rows) = 2
    /\ t_in.rows[1].SettlementDays > 90 /\ t_once.rows[1].SettlementDays = 90
    /\ t_in.rows[1].ClaimStatus = "Void" /\ t_once.rows[1].ClaimStatus = "Pending"
    /\ t_in.rows[2].SettlementDays < 1 /\ t_once.rows[2].SettlementDays = 1

\* the j-th smallest element of a set of numbers
Nth(S, j) == CHOOSE k \in S : Cardinality({i \in S : i <= k}) = j

\* C8: clean_data never adds rows and drops exactly the rows with
\* ClaimAmount <= 0: its result is the input's records with ClaimAmount > 0
\* in their original order.
C8_CleanKeepsPositiveRowsInOrder ==
    cstep >= 1 =>
        LET kept == {i \in 1..Len(t_in.rows) : t_in.rows[i].ClaimAmount > 0}
        IN /\ Len(t_once.rows) <= Len(t_in.rows)
           /\ Len(t_once.rows) = Cardinality(kept)
           /\ \A j \in 1..Len(t_once.rows) :
                 /\ t_once.rows[j].ClaimID = t_in.rows[Nth(kept, j)].ClaimID
                 /\ t_once.rows[j].ClaimAmount = t_in.rows[Nth(kept, j)].ClaimAmount

\* C8 witness: the first row of a two-row table is dropped, the second kept.
C8_Witness ==
    /\ cstep >= 1
    /\ Len(t_in.rows) = 2
    /\ t_in.rows[1].ClaimAmount = 0
    /\ t_in.rows[2].ClaimAmount > 0
    /\ Len(t_once.rows) = 1
    /\ t_once.rows[1].ClaimID = t_in.rows[2].ClaimID

(***************************************************************************)
(* Properties of generate_record (checked under SpecGen)                   *)
(***************************************************************************)
\* C7: every generated record has ClaimAmount > 0, SettlementDays >= 1,
\* ClaimType, ClaimStatus and Region in their fixed sets and AgentID in
\* A001..A050, whatever the random draws are.
C7_GeneratedRecordValid ==
    g_rec # <<>> =>
        LET rec == g_rec[1]
        IN /\ rec.ClaimAmount > 0
           /\ rec.SettlementDays >= 1
           /\ rec.ClaimType \in {"Motor", "Health", "Property"}
           /\ rec.ClaimStatus \in ValidStatuses
           /\ rec.Region \in {"Karnataka", "Maharashtra", "Delhi", "Tamil Nadu",
                              "Gujarat", "Telangana", "West Bengal", "Rajasthan",
                              "Uttar Pradesh", "Kerala"}
           /\ Len(rec.AgentID) = 4
           /\ rec.AgentID[1] = 65
           /\ \A k \in 2..4 : rec.AgentID[k] \in 48..57
           /\ ParseInt(SubSeq(rec.AgentID, 2, 4)) \in 1..50

\* C7 witness: a settled claim whose jitter is more negative than its base
\* duration is generated with SettlementDays 1.
C7_Witness ==
    /\ g_rec # <<>>
    /\ g_in.z = -600
    /\ g_rec[1].ClaimStatus # "Pending"
    /\ g_rec[1].SettlementDays = 1

(***************************************************************************)
(* Properties of main() and the sinks (checked under Spec)                 *)
(***************************************************************************)
\* what a process that runs to the end prints
FullLog == <<"Generating raw dataset...", "Wrote raw CSV",
             "Cleaning & transforming...", "Wrote clean CSV",
             "Writing SQLite database...", "Wrote SQLite DB",
             "Building Excel summary...", "Wrote Excel", "Done.">>

IsPrefix(a, b) == Len(a) <= Len(b) /\ SubSeq(b, 1, Len(a)) = a

\* the steps control may take inside one process, and the start of a process
OrderedSteps ==
    {<<"generate", "write_raw">>, <<"write_raw", "clean">>,
     <<"clean", "write_clean">>, <<"write_clean", "write_sqlite">>,
     <<"write_sqlite", "write_excel">>, <<"write_excel", "finish">>,
     <<"finish", "done">>,
     <<"write_raw", "failed">>, <<"write_clean", "failed">>,
     <<"write_sqlite", "failed">>, <<"write_excel", "failed">>,
     <<"idle", "generate">>, <<"done", "generate">>, <<"failed", "generate">>}

\* C3: with the seed and N fixed, any two runs of the generator produce the
\* same raw output, ClaimDate included.
C3_RawOutputDeterministic ==
    \A i, j \in 1..Len(rawRuns) : rawRuns[i] = rawRuns[j]

\* C4: in every run the stages happen in the order generate, write raw file,
\* clean, write clean file, write relational store, write spreadsheet, each
\* at most once, and the raw file holds the table as it was before cleaning.
C4_StagesInOrder ==
    /\ [][pc' # pc => <<pc, pc'>> \in OrderedSteps]_vars
    /\ [](IsPrefix(stdout, FullLog))
    /\ [](pc \in {"clean", "write_clean", "write_sqlite", "write_excel",
                  "finish", "done"} =>
             /\ Len(rawCsv) = Len(raw_df.rows) + 1
             /\ rawCsv[1] = RAW_COLUMNS
             /\ \A i \in 1..Len(raw_df.rows) :
                   \A c \in 1..Len(RAW_COLUMNS) :
                       rawCsv[i + 1][c] =
                           CsvCell(RAW_COLUMNS[c], raw_df.rows[i][RAW_COLUMNS[c]]))

\* C4 witness: a process at its end, having printed every stage once.
C4_Witness == pc = "done" /\ stdout = FullLog /\ rawCsv = to_csv(raw_df)

\* C5: a failing stage ends the run in a failed state: it is not retried,
\* no later stage runs, "Done" is never printed, and what earlier stages of
\* the run wrote stays on disk unchanged.
C5_FailureIsFatal ==
    /\ [](err # "none" => pc = "failed")
    /\ [](pc = "failed" => "Done." \notin Range(stdout))
    /\ [][(pc = "failed" /\ run' = run) =>
              UNCHANGED <<pc, stdout, rawCsv, cleanCsv, db, xlsx>>]_vars
    /\ [][(pc # "failed" /\ pc' = "failed") =>
              /\ pc \in {"write_clean", "write_sqlite", "write_excel"} =>
                     rawCsv' = rawCsv
              /\ pc \in {"write_sqlite", "write_excel"} => cleanCsv' = cleanCsv
              /\ pc = "write_excel" => db' = db]_vars

\* C5 witness: the spreadsheet stage failed after the three earlier sinks of
\* the same run wrote their outputs, which are still there.
C5_Witness ==
    /\ pc = "failed"
    /\ err = "OSError"
    /\ stdout = SubSeq(FullLog, 1, 7)
    /\ rawCsv = to_csv(raw_df)
    /\ cleanCsv = to_csv(clean_df)
    /\ db = ("Claims" :> clean_df)

\* C6: after a successful run the row count of the Claims table, the number
\* of data rows of the clean file, KPI TotalClaims and the sum of ClaimVolume
\* over the Trend sheet are equal, and the Trend sheet has exactly one row
\* per distinct YearMonth of the clean table.
C6_SinksAgreeOnCount ==
    pc = "done" =>
        LET n == Len(cleanCsv) - 1
            trend == xlsx[1].Trend
            months == {clean_df.rows[i].YearMonth : i \in 1..Len(clean_df.rows)}
        IN /\ "Claims" \in DOMAIN db
           /\ Len(db["Claims"].rows) = n
           /\ xlsx[1].KPI.TotalClaims = n
           /\ SumSeq([i \in 1..Len(trend) |-> trend[i].ClaimVolume]) = n
           /\ Len(trend) = Cardinality(months)
           /\ {trend[i].YearMonth : i \in 1..Len(trend)} = months

\* C6 witness: a successful run whose table has two records in one month.
C6_Witness ==
    /\ pc = "done"
    /\ Len(xlsx[1].Trend) < Len(clean_df.rows)
    /\ \E i \in 1..Len(xlsx[1].Trend) : xlsx[1].Trend[i].ClaimVolume >= 2

\* C9: running the pipeline again over the outputs of an earlier run raises
\* no error and replaces them: after a successful run the Claims table and
\* each output file hold exactly the records of that run's table.
C9_RerunReplacesOutputs ==
    /\ err # "ValueError"
    /\ pc = "done" =>
          /\ rawCsv = to_csv(raw_df)
          /\ cleanCsv = to_csv(clean_df)
          /\ DOMAIN db = {"Claims"}
          /\ db["Claims"].columns = clean_df.columns
          /\ db["Claims"].rows = clean_df.rows
          /\ xlsx = <<build_excel_summary(clean_df)>>

\* C9 witness: two successful runs in a row, the second over a different
\* table than the first.
C9_Witness ==
    /\ pc = "done"
    /\ completed = 2
    /\ run = 2
    /\ rawRuns[1] # rawRuns[2]

\* C10: from a project root without any output directory, the parent
\* directory of each of the four output paths exists when its sink writes,
\* so no sink of the first run fails for lack of its directory.
C10_OutputDirsCreated ==
    (dirs0 = {} /\ run = 1) =>
        /\ pc = "write_raw" => RAW_DIR \in dirs
        /\ pc = "write_clean" => PROC_DIR \in dirs
        /\ pc = "write_sqlite" => PROC_DIR \in dirs
        /\ pc = "write_excel" => REPORTS_DIR \in dirs
        /\ err # "FileNotFoundError"

====
